---- MODULE Spec2Model ----
(***************************************************************************)
(* Sailing simulation: the boat physics core (src/physics.cpp,             *)
(* src/boat.cpp, src/input.cpp) as a state machine.                        *)
(*                                                                         *)
(* Every C++ float is a fixed-point integer counting hundredths: 1.0 is    *)
(* SCALE, an angle is in hundredths of a radian, and the result of every   *)
(* multiplication, division, sqrtf, sinf, cosf and atan2f is rounded to    *)
(* the nearest hundredth, the way float arithmetic rounds to the nearest   *)
(* representable value.                                                    *)
(***************************************************************************)
EXTENDS Integers, Sequences, FiniteSets, TLC

\* one unit of the fixed-point grid is 1/SCALE
SCALE == 100

\* M_PI on the grid (3.14)
M_PI == 314

\* ------------------------------------------------------------------------
\* float arithmetic
\* ------------------------------------------------------------------------

Abs(a) == IF a < 0 THEN -a ELSE a

Sign(a) == IF a > 0 THEN 1 ELSE IF a < 0 THEN -1 ELSE 0

\* n / d rounded to the nearest integer, halves away from zero (d > 0)
RDiv(n, d) ==
    IF n >= 0 THEN (2 * n + d) \div (2 * d)
    ELSE -((2 * (-n) + d) \div (2 * d))

\* a * b of two floats
Mul(a, b) == RDiv(a * b, SCALE)

\* a / b of two floats (b # 0)
Div(a, b) ==
    IF b > 0 THEN RDiv(a * SCALE, b) ELSE -RDiv(a * SCALE, -b)

fmaxf(a, b) == IF a > b THEN a ELSE b

fminf(a, b) == IF a < b THEN a ELSE b

RECURSIVE SqrtSearch(_, _, _)
\* the r in lo..hi with r*r <= n < (r+1)*(r+1), given lo*lo <= n < (hi+1)*(hi+1)
SqrtSearch(n, lo, hi) ==
    IF lo >= hi THEN lo
    ELSE LET mid == (lo + hi + 1) \div 2
         IN IF mid * mid <= n THEN SqrtSearch(n, mid, hi)
            ELSE SqrtSearch(n, lo, mid - 1)

\* sqrtf of a float whose square is n / SCALE^2: the nearest grid value
sqrtf(n) ==
    LET r == SqrtSearch(n, 0, 46000)
    IN IF n - r * r > r THEN r + 1 ELSE r

\* sinf on [0, pi/2], one entry per hundredth of a radian from 0.00 to 1.57
SinTable ==
  << 0, 1, 2, 3, 4, 5, 6, 7, 8, 9, 10, 11, 12, 13, 14, 15,
     16, 17, 18, 19, 20, 21, 22, 23, 24, 25, 26, 27, 28, 29, 30, 31,
     31, 32, 33, 34, 35, 36, 37, 38, 39, 40, 41, 42, 43, 43, 44, 45,
     46, 47, 48, 49, 50, 51, 51, 52, 53, 54, 55, 56, 56, 57, 58, 59,
     60, 61, 61, 62, 63, 64, 64, 65, 66, 67, 67, 68, 69, 70, 70, 71,
     72, 72, 73, 74, 74, 75, 76, 76, 77, 78, 78, 79, 80, 80, 81, 81,
     82, 82, 83, 84, 84, 85, 85, 86, 86, 87, 87, 88, 88, 89, 89, 90,
     90, 90, 91, 91, 92, 92, 92, 93, 93, 94, 94, 94, 95, 95, 95, 96,
     96, 96, 96, 97, 97, 97, 97, 98, 98, 98, 98, 98, 99, 99, 99, 99,
     99, 99, 99, 99, 100, 100, 100, 100, 100, 100, 100, 100, 100, 100 >>

\* atanf on [0, 1], one entry per hundredth from 0.00 to 1.00
AtanTable ==
  << 0, 1, 2, 3, 4, 5, 6, 7, 8, 9, 10, 11, 12, 13, 14, 15,
     16, 17, 18, 19, 20, 21, 22, 23, 24, 24, 25, 26, 27, 28, 29, 30,
     31, 32, 33, 34, 35, 35, 36, 37, 38, 39, 40, 41, 41, 42, 43, 44,
     45, 46, 46, 47, 48, 49, 50, 50, 51, 52, 53, 53, 54, 55, 55, 56,
     57, 58, 58, 59, 60, 60, 61, 62, 62, 63, 64, 64, 65, 66, 66, 67,
     67, 68, 69, 69, 70, 70, 71, 72, 72, 73, 73, 74, 74, 75, 75, 76,
     76, 77, 78, 78, 79 >>

\* the angle reduced into [-pi, pi] by whole turns (the range reduction of
\* sinf and cosf)
Reduce(a) ==
    LET m == (a + M_PI) % (2 * M_PI)
    IN IF m = 0 /\ a > 0 THEN M_PI ELSE m - M_PI

sinf(a) ==
    LET r == Reduce(a)
        s == Abs(r)
        q == IF 2 * s > M_PI THEN M_PI - s ELSE s
    IN Sign(r) * SinTable[q + 1]

cosf(a) == sinf(a + M_PI \div 2)

\* atan2f(y, x): the angle whose sine is proportional to y and whose cosine
\* is proportional to x; atan2f(0, 0) = 0
atan2f(y, x) ==
    LET ay == Abs(y)
        ax == Abs(x)
        phi == IF ay <= ax
               THEN AtanTable[RDiv(ay * SCALE, ax) + 1]
               ELSE M_PI \div 2 - AtanTable[RDiv(ax * SCALE, ay) + 1]
    IN IF x = 0 /\ y = 0 THEN 0
       ELSE IF x >= 0 THEN Sign(y) * phi
       ELSE IF y >= 0 THEN M_PI - phi
       ELSE -(M_PI - phi)

\* ------------------------------------------------------------------------
\* src/types.h: Vector2D
\* ------------------------------------------------------------------------

Vector2D(x, y) == [x |-> x, y |-> y]

VecAdd(u, v) == Vector2D(u.x + v.x, u.y + v.y)

VecSub(u, v) == Vector2D(u.x - v.x, u.y - v.y)

VecScale(v, s) == Vector2D(Mul(v.x, s), Mul(v.y, s))

magnitude(v) == sqrtf(v.x * v.x + v.y * v.y)

\* normalized with a default axis for the vector of no length
normalizedOrAxis(v) ==
    LET mag == magnitude(v)
    IN IF mag > 0 THEN Vector2D(Div(v.x, mag), Div(v.y, mag)) ELSE Vector2D(0, SCALE)

normalized(v) ==
    LET mag == magnitude(v)
    IN IF mag > 0 THEN Vector2D(Div(v.x, mag), Div(v.y, mag)) ELSE Vector2D(0, 0)

\* ------------------------------------------------------------------------
\* src/physics.cpp
\* ------------------------------------------------------------------------

WATER_DENSITY == 100000

\* 0.007f, in thousandths (finer than the grid)
DRAG_COEFFICIENT == 7

HULL_AREA == 200

SAIL_AREA == 800

SAIL_EFFICIENCY == 200

BOAT_MASS == 5000

RUDDER_EFFECTIVENESS == 20

\* the literal 0.5f
HALF == 50

\* a * DRAG_COEFFICIENT
MulDragCoefficient(a) == RDiv(a * DRAG_COEFFICIENT, 1000)

RECURSIVE WhileAbove(_)
\* while (angle > M_PI) angle -= 2*M_PI;
WhileAbove(angle) ==
    IF angle > M_PI THEN WhileAbove(angle - 2 * M_PI) ELSE angle

RECURSIVE WhileBelow(_)
\* while (angle < -M_PI) angle += 2*M_PI;
WhileBelow(angle) ==
    IF angle < -M_PI THEN WhileBelow(angle + 2 * M_PI) ELSE angle

\* NormalizeAngle without its second loop
NormalizeAngleNoLower(angle) == WhileAbove(angle)

\* NormalizeAngle with an if in place of each while
NormalizeAngleOnce(angle) ==
    IF angle > M_PI THEN angle - 2 * M_PI
    ELSE IF angle < -M_PI THEN angle + 2 * M_PI
    ELSE angle

NormalizeAngle(angle) == WhileBelow(WhileAbove(angle))

GetWindVector(wind) ==
    Vector2D(Mul(-wind.speed, sinf(wind.direction)),
             Mul(-wind.speed, cosf(wind.direction)))

GetApparentWind(trueWind, boatVx, boatVy) ==
    LET trueWindVec == GetWindVector(trueWind)
        boatVelocity == Vector2D(boatVx, boatVy)
    IN VecSub(trueWindVec, boatVelocity)

\* sheet * M_PI/2
MaxSheetAngle(sheet) == RDiv(Mul(sheet, M_PI), 2)

\* the angle of a sail swinging free: straight downwind of the apparent wind
NaturalSailAngle(apparentWind, boatHeading) ==
    LET windAngle == atan2f(apparentWind.x, apparentWind.y)
        windRelativeToBoat == NormalizeAngle(windAngle - boatHeading)
    IN NormalizeAngle(windRelativeToBoat + M_PI)

\* GetSailAngle without the sheet limit
GetSailAngleFree(apparentWind, boatHeading, sheet) ==
    NaturalSailAngle(apparentWind, boatHeading)

\* GetSailAngle of a sail that is always held out to the sheet limit
GetSailAngleSheeted(apparentWind, boatHeading, sheet) ==
    LET naturalSailAngle == NaturalSailAngle(apparentWind, boatHeading)
        maxSheetAngle == MaxSheetAngle(sheet)
    IN IF naturalSailAngle > 0 THEN M_PI - maxSheetAngle
       ELSE -M_PI + maxSheetAngle

GetSailAngle(apparentWind, boatHeading, sheet) ==
    LET naturalSailAngle == NaturalSailAngle(apparentWind, boatHeading)
        deviationFromStern == Abs(Abs(naturalSailAngle) - M_PI)
        maxSheetAngle == MaxSheetAngle(sheet)
    IN IF deviationFromStern > maxSheetAngle
       THEN (IF naturalSailAngle > 0 THEN M_PI - maxSheetAngle
             ELSE -M_PI + maxSheetAngle)
       ELSE naturalSailAngle

\* 0.5f * SAIL_EFFICIENCY * SAIL_AREA * efficiency * speed * speed
WindForceMagnitude(efficiency, apparentWindSpeed) ==
    Mul(Mul(Mul(Mul(Mul(HALF, SAIL_EFFICIENCY), SAIL_AREA), efficiency),
            apparentWindSpeed), apparentWindSpeed)

\* the apparent wind speed below which no sail force is produced (0.1f)
MIN_WIND_SPEED == 10

\* the sail force of an apparent wind of any speed
SailForceOf(apparentWind, boatHeading, sheet) ==
    LET sailAngle == GetSailAngle(apparentWind, boatHeading, sheet)
        apparentWindSpeed == magnitude(apparentWind)
        sailOrientation == boatHeading + sailAngle
        windToSailAngle ==
            NormalizeAngle(atan2f(apparentWind.x, apparentWind.y) - sailOrientation)
        efficiency == sinf(Abs(windToSailAngle))
        forceMagnitude == WindForceMagnitude(efficiency, apparentWindSpeed)
        forceDirection ==
            sailOrientation + (IF windToSailAngle > 0 THEN M_PI \div 2 ELSE -(M_PI \div 2))
    IN Vector2D(Mul(forceMagnitude, sinf(forceDirection)),
                Mul(forceMagnitude, cosf(forceDirection)))

\* CalculateSailForce without its low-wind guard
CalculateSailForceNoGuard(apparentWind, boatHeading, sheet) ==
    SailForceOf(apparentWind, boatHeading, sheet)

\* CalculateSailForce with the quarter turn from the sail to the force taken
\* the other way round
CalculateSailForceLeeSide(apparentWind, boatHeading, sheet) ==
    LET sailAngle == GetSailAngle(apparentWind, boatHeading, sheet)
        apparentWindSpeed == magnitude(apparentWind)
        sailOrientation == boatHeading + sailAngle
        windToSailAngle ==
            NormalizeAngle(atan2f(apparentWind.x, apparentWind.y) - sailOrientation)
        efficiency == sinf(Abs(windToSailAngle))
        forceMagnitude == WindForceMagnitude(efficiency, apparentWindSpeed)
        forceDirection ==
            sailOrientation + (IF windToSailAngle > 0 THEN -(M_PI \div 2) ELSE M_PI \div 2)
    IN IF apparentWindSpeed < MIN_WIND_SPEED THEN Vector2D(0, 0)
       ELSE Vector2D(Mul(forceMagnitude, sinf(forceDirection)),
                     Mul(forceMagnitude, cosf(forceDirection)))

CalculateSailForce(apparentWind, boatHeading, sheet) ==
    LET sailAngle == GetSailAngle(apparentWind, boatHeading, sheet)
        apparentWindSpeed == magnitude(apparentWind)
        sailOrientation == boatHeading + sailAngle
        windToSailAngle ==
            NormalizeAngle(atan2f(apparentWind.x, apparentWind.y) - sailOrientation)
        efficiency == sinf(Abs(windToSailAngle))
        forceMagnitude == WindForceMagnitude(efficiency, apparentWindSpeed)
        forceDirection ==
            sailOrientation + (IF windToSailAngle > 0 THEN M_PI \div 2 ELSE -(M_PI \div 2))
    IN IF apparentWindSpeed < MIN_WIND_SPEED THEN Vector2D(0, 0)
       ELSE Vector2D(Mul(forceMagnitude, sinf(forceDirection)),
                     Mul(forceMagnitude, cosf(forceDirection)))

\* the boat speed below which no drag is produced (0.01f)
MIN_DRAG_SPEED == 1

\* 0.5f * WATER_DENSITY * DRAG_COEFFICIENT * HULL_AREA
DragFactor == Mul(MulDragCoefficient(Mul(HALF, WATER_DENSITY)), HULL_AREA)

\* CalculateDrag without its speed guard
CalculateDragNoGuard(vx, vy, unit) ==
    LET velocity == Vector2D(vx, vy)
        speed == magnitude(velocity)
        dragMagnitude == RDiv(Mul(DragFactor, speed) * speed, unit)
    IN VecScale(normalized(velocity), -dragMagnitude)

\* CalculateDrag on velocities and forces of `unit` grid steps to 1.0: the
\* boat's own are of SCALE steps; a finer unit tells speeds under 0.01 apart
CalculateDragAt(vx, vy, unit) ==
    LET velocity == Vector2D(vx, vy)
        speed == magnitude(velocity)
        dragMagnitude == RDiv(Mul(DragFactor, speed) * speed, unit)
    IN IF speed < RDiv(MIN_DRAG_SPEED * unit, SCALE) THEN Vector2D(0, 0)
       ELSE VecScale(normalized(velocity), -dragMagnitude)

\* a drag that acts along the velocity instead of against it
CalculateDragForward(vx, vy) ==
    VecScale(CalculateDragAt(vx, vy, SCALE), -SCALE)

CalculateDrag(vx, vy) == CalculateDragAt(vx, vy, SCALE)

SAIL_CENTER_HEIGHT == 300

RIGHTING_CONSTANT == 1000000

\* the heel angle left uncapped
ClampHeelSkipped(heelAngle) == heelAngle

\* fminf(fabs(heelAngle), M_PI/4), signed as heelAngle
ClampHeel(heelAngle) ==
    LET clampedMagnitude == fminf(Abs(heelAngle), M_PI \div 4)
    IN IF heelAngle > 0 THEN clampedMagnitude ELSE -clampedMagnitude

\* CalculateHeelAngle with the side of the heel taken from signSource, the
\* local the function computes from its static and leaves unused
CalculateHeelAngleBySignSource(apparentWind, boatHeading, sailAngle, prevDeviation) ==
    LET apparentWindSpeed == magnitude(apparentWind)
        apparentWindAngle == atan2f(apparentWind.x, apparentWind.y)
        sailOrientationWorld == boatHeading + sailAngle
        windToSailAngle == NormalizeAngle(apparentWindAngle - sailOrientationWorld)
        windEfficiency == sinf(Abs(windToSailAngle))
        windForce == WindForceMagnitude(windEfficiency, apparentWindSpeed)
        deviationFromCenterline == NormalizeAngle(sailAngle - M_PI)
        heelMagnitude ==
            Mul(Mul(windForce, Abs(cosf(deviationFromCenterline))), SAIL_CENTER_HEIGHT)
        signSource == IF Abs(deviationFromCenterline) < 1 THEN prevDeviation
                      ELSE deviationFromCenterline
        heelDirection == IF signSource > 0 THEN 1 ELSE -1
        heelingMoment == heelMagnitude * heelDirection
        heelAngle == Div(heelingMoment, RIGHTING_CONSTANT)
    IN [heel |-> ClampHeel(heelAngle), prevDeviation |-> deviationFromCenterline,
        heelAngle |-> heelAngle]

\* returns the heel angle, the new value of the function's static
\* prevDeviation, and the heel angle before the clamp
CalculateHeelAngle(apparentWind, boatHeading, sailAngle, prevDeviation) ==
    LET apparentWindSpeed == magnitude(apparentWind)
        apparentWindAngle == atan2f(apparentWind.x, apparentWind.y)
        sailOrientationWorld == boatHeading + sailAngle
        windToSailAngle == NormalizeAngle(apparentWindAngle - sailOrientationWorld)
        windEfficiency == sinf(Abs(windToSailAngle))
        windForce == WindForceMagnitude(windEfficiency, apparentWindSpeed)
        deviationFromCenterline == NormalizeAngle(sailAngle - M_PI)
        heelMagnitude ==
            Mul(Mul(windForce, Abs(cosf(deviationFromCenterline))), SAIL_CENTER_HEIGHT)
        heelDirection == IF windToSailAngle > 0 THEN 1 ELSE -1
        heelingMoment == heelMagnitude * heelDirection
        heelAngle == Div(heelingMoment, RIGHTING_CONSTANT)
        signSource == IF Abs(deviationFromCenterline) < 1 THEN prevDeviation
                      ELSE deviationFromCenterline
    IN [heel |-> ClampHeel(heelAngle), prevDeviation |-> deviationFromCenterline,
        heelAngle |-> heelAngle]

\* ------------------------------------------------------------------------
\* src/boat.cpp
\* ------------------------------------------------------------------------

InitBoat ==
    [x |-> 0, y |-> 0, vx |-> 0, vy |-> 0,
     heading |-> RDiv(M_PI, 4),
     heel |-> 0,
     sheet |-> 50,
     rudder |-> 0,
     length |-> 500,
     sailAngle |-> M_PI,
     sailAngularVel |-> 0]

SAIL_DAMPING == 500

SAIL_SPRING == 1000

\* the spring-damper step of the sail: the integrated, normalized sail angle
\* and the angular velocity, before the sheet clamp
IntegrateSail(boat, apparentWind, dt) ==
    LET windAngle == atan2f(apparentWind.x, apparentWind.y)
        boomWorld == boat.heading + boat.sailAngle
        targetBoomWorld == NormalizeAngle(windAngle + M_PI)
        boomError == NormalizeAngle(targetBoomWorld - boomWorld)
        sailAcceleration ==
            Mul(boomError, SAIL_SPRING) - Mul(boat.sailAngularVel, SAIL_DAMPING)
        sailAngularVel == boat.sailAngularVel + Mul(sailAcceleration, dt)
        sailAngle == boat.sailAngle + Mul(sailAngularVel, dt)
    IN [sailAngle |-> NormalizeAngle(sailAngle), sailAngularVel |-> sailAngularVel]

\* the sheet constraint left out
ClampSailSkipped(sail, sheet) == sail

\* the sheet constraint that stops the sail at the limit and leaves it its
\* angular velocity
ClampSailKeepsVelocity(sail, sheet) ==
    LET maxSheetAngle == MaxSheetAngle(sheet)
        deviation == NormalizeAngle(sail.sailAngle - M_PI)
    IN IF Abs(deviation) > maxSheetAngle
       THEN [sailAngle |-> M_PI + (IF deviation > 0 THEN maxSheetAngle
                                   ELSE -maxSheetAngle),
             sailAngularVel |-> sail.sailAngularVel]
       ELSE sail

\* the sheet constraint on the integrated sail
ClampSail(sail, sheet) ==
    LET maxSheetAngle == MaxSheetAngle(sheet)
        deviation == NormalizeAngle(sail.sailAngle - M_PI)
    IN IF Abs(deviation) > maxSheetAngle
       THEN [sailAngle |-> M_PI + (IF deviation > 0 THEN maxSheetAngle
                                   ELSE -maxSheetAngle),
             sailAngularVel |-> 0]
       ELSE sail

\* the sail force projected on the heading axis
EffectiveForce(sailForce, heading) ==
    LET forceAlongHeading ==
            Mul(sailForce.x, sinf(heading)) + Mul(sailForce.y, cosf(heading))
    IN Vector2D(Mul(forceAlongHeading, sinf(heading)),
                Mul(forceAlongHeading, cosf(heading)))

\* the velocity after the forces have acted for dt
IntegrateVelocity(vx, vy, totalForce, dt) ==
    LET acceleration == VecScale(totalForce, Div(SCALE, BOAT_MASS))
    IN Vector2D(vx + Mul(acceleration.x, dt), vy + Mul(acceleration.y, dt))

\* the keel constraint left out
KeelConstraintSkipped(v, heading) == v

\* the keel effect: the velocity constrained to the heading
KeelConstraint(v, heading) ==
    LET speedAlongHeading == Mul(v.x, sinf(heading)) + Mul(v.y, cosf(heading))
    IN Vector2D(Mul(speedAlongHeading, sinf(heading)),
                Mul(speedAlongHeading, cosf(heading)))

\* the heading turned at the rate of the speed alone, the rudder left out
UpdateHeadingBySpeed(heading, rudder, v, dt) ==
    LET speed == sqrtf(v.x * v.x + v.y * v.y)
    IN NormalizeAngle(heading + Mul(Mul(RUDDER_EFFECTIVENESS, speed), dt))

\* the heading turned at the rate of the rudder alone, the speed left out
UpdateHeadingNoSpeed(heading, rudder, v, dt) ==
    NormalizeAngle(heading + Mul(Mul(rudder, RUDDER_EFFECTIVENESS), dt))

\* the heading turned by the rudder and left as it falls
UpdateHeadingRaw(heading, rudder, v, dt) ==
    LET speed == sqrtf(v.x * v.x + v.y * v.y)
    IN heading + Mul(Mul(Mul(rudder, RUDDER_EFFECTIVENESS), speed), dt)

\* the heading turned by the rudder
UpdateHeading(heading, rudder, v, dt) ==
    LET speed == sqrtf(v.x * v.x + v.y * v.y)
    IN NormalizeAngle(
           heading + Mul(Mul(Mul(rudder, RUDDER_EFFECTIVENESS), speed), dt))

\* the value a local variable holds: the one element of {its initializer}
Only(S) == CHOOSE value \in S : TRUE

\* the boat physics with a tiller that springs back to the centre once the
\* tick has turned the boat
BoatPhysicsCentring(boat, sailForce, dt) ==
    LET effectiveForce == EffectiveForce(sailForce, boat.heading)
        dragForce == CalculateDrag(boat.vx, boat.vy)
        totalForce == VecAdd(effectiveForce, dragForce)
    IN Only({
         Only({
           [boat EXCEPT
              !.vx = v.x,
              !.vy = v.y,
              !.x = boat.x + Mul(v.x, dt),
              !.y = boat.y + Mul(v.y, dt),
              !.heading = UpdateHeading(boat.heading, boat.rudder, v, dt),
              !.rudder = 0]
           : v \in {KeelConstraint(integrated, boat.heading)} })
         : integrated \in {IntegrateVelocity(boat.vx, boat.vy, totalForce, dt)} })

\* the boat physics that turns the boat by the speed it had before the keel
\* constraint
BoatPhysicsTurnsOnRawSpeed(boat, sailForce, dt) ==
    LET effectiveForce == EffectiveForce(sailForce, boat.heading)
        dragForce == CalculateDrag(boat.vx, boat.vy)
        totalForce == VecAdd(effectiveForce, dragForce)
    IN Only({
         Only({
           [boat EXCEPT
              !.vx = v.x,
              !.vy = v.y,
              !.x = boat.x + Mul(v.x, dt),
              !.y = boat.y + Mul(v.y, dt),
              !.heading = UpdateHeading(boat.heading, boat.rudder, integrated, dt)]
           : v \in {KeelConstraint(integrated, boat.heading)} })
         : integrated \in {IntegrateVelocity(boat.vx, boat.vy, totalForce, dt)} })

\* the boat physics that applies the sail force to the velocity first and
\* computes the drag from the velocity so updated
BoatPhysicsDragAfterForce(boat, sailForce, dt) ==
    LET effectiveForce == EffectiveForce(sailForce, boat.heading)
    IN Only({
         Only({
           [boat EXCEPT
              !.vx = v.x,
              !.vy = v.y,
              !.x = boat.x + Mul(v.x, dt),
              !.y = boat.y + Mul(v.y, dt),
              !.heading = UpdateHeading(boat.heading, boat.rudder, v, dt)]
           : v \in {KeelConstraint(
                       IntegrateVelocity(pushed.x, pushed.y,
                                         CalculateDrag(pushed.x, pushed.y), dt),
                       boat.heading)} })
         : pushed \in {IntegrateVelocity(boat.vx, boat.vy, effectiveForce, dt)} })

\* the boat physics of a tick, from the sail force on: the velocity
\* integrated and constrained, then the position and the heading
BoatPhysics(boat, sailForce, dt) ==
    LET effectiveForce == EffectiveForce(sailForce, boat.heading)
        dragForce == CalculateDrag(boat.vx, boat.vy)
        totalForce == VecAdd(effectiveForce, dragForce)
    IN Only({
         Only({
           [boat EXCEPT
              !.vx = v.x,
              !.vy = v.y,
              !.x = boat.x + Mul(v.x, dt),
              !.y = boat.y + Mul(v.y, dt),
              !.heading = UpdateHeading(boat.heading, boat.rudder, v, dt)]
           : v \in {KeelConstraint(integrated, boat.heading)} })
         : integrated \in {IntegrateVelocity(boat.vx, boat.vy, totalForce, dt)} })

\* one tick: the new boat, the new value of CalculateHeelAngle's static, the
\* sail force the tick applied and the heel angle before its clamp
UpdateBoat(boat, wind, dt, prevDeviation) ==
    Only({
      Only({
        Only({
          [boat |-> [BoatPhysics(boat, sailForce, dt) EXCEPT
                       !.sailAngle = sail.sailAngle,
                       !.sailAngularVel = sail.sailAngularVel,
                       !.heel = heel.heel],
           prevDeviation |-> heel.prevDeviation,
           sailForce |-> sailForce,
           heelAngle |-> heel.heelAngle]
          : sailForce \in {CalculateSailForce(apparentWind, boat.heading, boat.sheet)},
            heel \in {CalculateHeelAngle(apparentWind, boat.heading, sail.sailAngle,
                                        prevDeviation)} })
        : sail \in {ClampSail(integratedSail, boat.sheet) :
                      integratedSail \in {IntegrateSail(boat, apparentWind, dt)}} })
      : apparentWind \in {GetApparentWind(wind, boat.vx, boat.vy)} })

\* ------------------------------------------------------------------------
\* src/input.cpp
\* ------------------------------------------------------------------------

\* HandleInput without the fmaxf and fminf around the sheet
HandleInputUnclamped(boat, dt, keys) ==
    LET rudder == IF keys.left THEN -SCALE
                  ELSE IF keys.right THEN SCALE
                  ELSE 0
        sheetIn == IF keys.in THEN boat.sheet - Mul(HALF, dt) ELSE boat.sheet
        sheetOut == IF keys.out THEN sheetIn + Mul(HALF, dt) ELSE sheetIn
    IN [boat EXCEPT !.rudder = rudder, !.sheet = sheetOut]

\* HandleInput that leaves the rudder where it was when no steering key is
\* held
HandleInputKeepsRudder(boat, dt, keys) ==
    LET rudder == IF keys.left THEN -SCALE
                  ELSE IF keys.right THEN SCALE
                  ELSE boat.rudder
        sheetIn == IF keys.in THEN fmaxf(0, boat.sheet - Mul(HALF, dt))
                   ELSE boat.sheet
        sheetOut == IF keys.out THEN fminf(SCALE, sheetIn + Mul(HALF, dt))
                    ELSE sheetIn
    IN [boat EXCEPT !.rudder = rudder, !.sheet = sheetOut]

\* keys: which of the four key pairs are held
\* (left: LEFT or A, right: RIGHT or D, in: W or UP, out: S or DOWN)
HandleInput(boat, dt, keys) ==
    LET rudder == IF keys.left THEN -SCALE
                  ELSE IF keys.right THEN SCALE
                  ELSE 0
        sheetIn == IF keys.in THEN fmaxf(0, boat.sheet - Mul(HALF, dt))
                   ELSE boat.sheet
        sheetOut == IF keys.out THEN fminf(SCALE, sheetIn + Mul(HALF, dt))
                    ELSE sheetIn
    IN [boat EXCEPT !.rudder = rudder, !.sheet = sheetOut]

\* ------------------------------------------------------------------------
\* src/wind.cpp
\* ------------------------------------------------------------------------

MAX_PARTICLES == 400

TRAIL_LENGTH == 12

\* the radius around the boat beyond which a particle is respawned
RESPAWN_DISTANCE == 10000

\* the particles followed, by their index in particles[]: the loop treats
\* every index alike, and an index sees the others only through frameCount,
\* which each of the MAX_PARTICLES iterations of a call increments once
ParticleIndices == {1, 2, MAX_PARTICLES - 1}

\* a WindParticle at (x, y) with its whole trail there, trailX[0] at index
\* 1; shifts, heldX and heldY are history: whether each of the last calls,
\* latest first, has shifted the trail, and the trail as the latest call
\* found it at its trail step
Particle(x, y, lifetime) ==
    [x |-> x, y |-> y,
     trailX |-> [j \in 1..TRAIL_LENGTH |-> x],
     trailY |-> [j \in 1..TRAIL_LENGTH |-> y],
     lifetime |-> lifetime,
     shifts |-> << >>,
     heldX |-> << >>,
     heldY |-> << >>]

\* the spawn of a dead particle on one of the four edges around the boat;
\* value is what GetRandomValue returns for the coordinate along the edge
SpawnParticle(p, boat, edge, value) ==
    LET x == IF edge = 0 \/ edge = 2 THEN boat.x + value
             ELSE IF edge = 1 THEN boat.x + 80 * SCALE
             ELSE boat.x - 80 * SCALE
        y == IF edge = 0 THEN boat.y + 60 * SCALE
             ELSE IF edge = 2 THEN boat.y - 60 * SCALE
             ELSE boat.y + value
    IN [p EXCEPT !.x = x, !.y = y,
                 !.lifetime = 999 * SCALE,
                 !.trailX = [j \in 1..TRAIL_LENGTH |-> x],
                 !.trailY = [j \in 1..TRAIL_LENGTH |-> y]]

\* frameCount % 3 == 0
TrailDue(count) == count % 3 = 0

\* one coordinate of the trail moved one index back, with that of the
\* position at index 0
ShiftTrail(trail, x) ==
    [j \in 1..TRAIL_LENGTH |-> IF j = 1 THEN x ELSE trail[j - 1]]

\* frameCount as a local of the call, back at 0 on every call
FrameCountLocal(frameCount) == 0

\* the static frameCount after the MAX_PARTICLES iterations of a call
FrameCountAfter(frameCount) == frameCount + MAX_PARTICLES

\* one iteration of the loop, for the particle of index i: count is
\* frameCount after the increment of this iteration, time is GetTime(),
\* draw the edge and the value of GetRandomValue for a respawn
UpdateWindParticle(p, i, count, boat, trueWind, dt, time, draw) ==
    LET spawned == IF p.lifetime <= 0
                   THEN SpawnParticle(p, boat, draw.edge, draw.value)
                   ELSE p
        wobble == Mul(sinf(2 * time + i * SCALE), SCALE \div 10)
        x == spawned.x + Mul(trueWind.x, dt) + Mul(Mul(-trueWind.y, wobble), dt)
        y == spawned.y + Mul(trueWind.y, dt) + Mul(Mul(trueWind.x, wobble), dt)
        due == TrailDue(count)
        distFromBoat == magnitude(Vector2D(x - boat.x, y - boat.y))
    IN [x |-> x, y |-> y,
        trailX |-> IF due THEN ShiftTrail(spawned.trailX, x) ELSE spawned.trailX,
        trailY |-> IF due THEN ShiftTrail(spawned.trailY, y) ELSE spawned.trailY,
        lifetime |-> IF distFromBoat > RESPAWN_DISTANCE THEN 0 ELSE spawned.lifetime,
        shifts |-> SubSeq(<<due>> \o p.shifts, 1,
                          IF Len(p.shifts) < 3 THEN Len(p.shifts) + 1 ELSE 3),
        heldX |-> spawned.trailX,
        heldY |-> spawned.trailY]

\* one call: the particles followed and the static frameCount after it
UpdateWindParticles(particles, frameCount, boat, wind, dt, time, draws) ==
    [particles |->
        [i \in ParticleIndices |->
            UpdateWindParticle(particles[i], i, frameCount + i + 1, boat,
                               GetWindVector(wind), dt, time,
                               IF i \in DOMAIN draws THEN draws[i]
                               ELSE [edge |-> 0, value |-> 0])],
     frameCount |-> FrameCountAfter(frameCount)]

\* ------------------------------------------------------------------------
\* src/wake.cpp
\* ------------------------------------------------------------------------

WAKE_LENGTH == 50

\* const float WAKE_INTERVAL = 0.1f
WAKE_INTERVAL == 10

WakePoint(x, y) == [x |-> x, y |-> y]

\* the points of the wake array that have been written: none before the
\* first is added; the entries behind them hold no value yet
NoWake == << >>

\* the points moved one index back, the one at index WAKE_LENGTH - 1
\* dropped, with the boat position at index 0
ShiftWake(wake, boat) ==
    <<WakePoint(boat.x, boat.y)>>
        \o SubSeq(wake, 1, IF Len(wake) < WAKE_LENGTH THEN Len(wake)
                           ELSE WAKE_LENGTH - 1)

\* UpdateWake that keeps timeSinceLastPoint running after a point is added
UpdateWakeNoReset(wake, wakeCount, timeSinceLastPoint, boat, dt) ==
    LET t == timeSinceLastPoint + dt
    IN IF t >= WAKE_INTERVAL
       THEN [wake |-> ShiftWake(wake, boat),
             wakeCount |-> IF wakeCount < WAKE_LENGTH THEN wakeCount + 1 ELSE wakeCount,
             timeSinceLastPoint |-> t,
             added |-> TRUE]
       ELSE [wake |-> wake, wakeCount |-> wakeCount, timeSinceLastPoint |-> t,
             added |-> FALSE]

\* one call: the array, the count and the static timeSinceLastPoint after
\* it, and whether the call has added a point
UpdateWake(wake, wakeCount, timeSinceLastPoint, boat, dt) ==
    LET t == timeSinceLastPoint + dt
    IN IF t >= WAKE_INTERVAL
       THEN [wake |-> ShiftWake(wake, boat),
             wakeCount |-> IF wakeCount < WAKE_LENGTH THEN wakeCount + 1 ELSE wakeCount,
             timeSinceLastPoint |-> 0,
             added |-> TRUE]
       ELSE [wake |-> wake, wakeCount |-> wakeCount, timeSinceLastPoint |-> t,
             added |-> FALSE]

\* ------------------------------------------------------------------------
\* src/wavechevrons.cpp
\* ------------------------------------------------------------------------

MAX_WAVE_CHEVRONS == 30

GRID_SPACING == 2000

JITTER == 500

\* chevrons[i].lifetime = 3.0f
CHEVRON_LIFETIME == 300

\* the chevron followed, by its index in chevrons[]: the loop treats each
\* index by itself, with no state shared between two of them
ChevronIndices == {MAX_WAVE_CHEVRONS - 1}

\* a WaveChevron not yet spawned; age and step are history: the dt the
\* chevron has accumulated since its spawn, and the dt of the latest call
NoChevron ==
    [x |-> 0, z |-> 0, rotation |-> 0, phase |-> 0, lifetime |-> 0,
     active |-> FALSE, age |-> 0, step |-> 0]

\* where the chevron of index i should be on the grid around the boat
GridTarget(i, boat) ==
    [x |-> boat.x + ((i % 6) - 3) * GRID_SPACING,
     z |-> -boat.y + ((i \div 6) - 3) * GRID_SPACING]

\* one iteration of the loop that does not look at the distance from the
\* grid
UpdateWaveChevronKeepsFar(c, i, boat, dt, draw) ==
    IF ~c.active
    THEN IF draw.spawn
         THEN [x |-> GridTarget(i, boat).x + draw.jx,
               z |-> GridTarget(i, boat).z + draw.jz,
               rotation |-> RDiv(M_PI, 4),
               phase |-> 0,
               lifetime |-> CHEVRON_LIFETIME,
               active |-> TRUE,
               age |-> 0, step |-> dt]
         ELSE [c EXCEPT !.step = dt]
    ELSE LET phase == c.phase + Div(dt, c.lifetime)
         IN [c EXCEPT !.phase = phase,
                      !.active = ~(phase >= SCALE),
                      !.age = c.age + dt, !.step = dt]

\* one iteration of the loop, for the chevron of index i; draw is what
\* GetRandomValue returns: whether the chevron spawns, and its jitter
UpdateWaveChevron(c, i, boat, dt, draw) ==
    IF ~c.active
    THEN IF draw.spawn
         THEN [x |-> GridTarget(i, boat).x + draw.jx,
               z |-> GridTarget(i, boat).z + draw.jz,
               rotation |-> RDiv(M_PI, 4),
               phase |-> 0,
               lifetime |-> CHEVRON_LIFETIME,
               active |-> TRUE,
               age |-> 0, step |-> dt]
         ELSE [c EXCEPT !.step = dt]
    ELSE LET phase == c.phase + Div(dt, c.lifetime)
             distFromGrid == magnitude(Vector2D(c.x - GridTarget(i, boat).x,
                                                c.z - GridTarget(i, boat).z))
         IN [c EXCEPT !.phase = phase,
                      !.active = ~(distFromGrid > RDiv(3 * GRID_SPACING, 2)
                                     \/ phase >= SCALE),
                      !.age = c.age + dt, !.step = dt]

UpdateWaveChevrons(chevrons, boat, dt, draws) ==
    [i \in ChevronIndices |-> UpdateWaveChevron(chevrons[i], i, boat, dt, draws[i])]

\* ------------------------------------------------------------------------
\* The simulation: one Boat and one Wind, driven frame by frame
\* ------------------------------------------------------------------------

VARIABLES
    boat,               \* the Boat
    wind,               \* the Wind
    baseWindDirection,  \* the direction the driver oscillates the wind around
    prevDeviation,      \* static float prevDeviation of CalculateHeelAngle
    ticks,              \* UpdateBoat calls made so far
    call,               \* a direct call of a physics function: its name,
                        \* arguments and result
    last,               \* the last UpdateBoat call: dt, the boat and wind it
                        \* was given, the sail force it applied, its heel
                        \* angle before the clamp, and the heel, heading
                        \* and sail force of the tick before it
    particles,          \* the WindParticles followed
    frameCount,         \* static int frameCount of UpdateWindParticles
    wake,               \* the WakePoints written so far, wake[0] at index 1
    wakeCount,          \* the number of WakePoints in use
    timeSinceLastPoint, \* static float timeSinceLastPoint of UpdateWake
    chevrons            \* the WaveChevrons followed

\* what is animated around the boat
scenery == <<particles, frameCount, wake, wakeCount, timeSinceLastPoint, chevrons>>

vars == <<boat, wind, baseWindDirection, prevDeviation, ticks, call, last, scenery>>

\* the number of ticks of a run
MaxTicks == 2

\* frame times of a tick
DtSet == {10, 25}

\* frame times of an input poll
InputDtSet == {100}

WindSpeeds == {0, 2500}

\* the swing of the wind around its base direction: none, and the full
\* windSwing of 45 degrees
WindOffsets == {0, RDiv(M_PI, 4)}

\* no physics function has been called directly
KeySet == [left : BOOLEAN, right : BOOLEAN, in : BOOLEAN, out : BOOLEAN]

NoKeys == [left |-> FALSE, right |-> FALSE, in |-> FALSE, out |-> FALSE]

NoCall ==
    [fn |-> "none", angle |-> 0, apparentWind |-> Vector2D(0, 0), boatHeading |-> 0,
     sheet |-> 0, ret |-> 0, force |-> Vector2D(0, 0), vector |-> Vector2D(0, 0),
     before |-> 0, keys |-> NoKeys,
     wake |-> NoWake, wakeCount |-> 0, added |-> FALSE, elapsed |-> 0]

\* src/main.cpp keeps no wind particles
NoParticles ==
    /\ particles = << >>
    /\ frameCount = 0

InitWake ==
    /\ wake = NoWake
    /\ wakeCount = 0
    /\ timeSinceLastPoint = 0

\* src/main.cpp keeps no wave chevrons
NoChevrons == chevrons = << >>

InitChevrons == chevrons = [i \in ChevronIndices |-> NoChevron]

\* the scenery of src/main.cpp
InitScenery == NoParticles /\ InitWake /\ NoChevrons

\* the boat and the wind before the first frame
InitSimulation ==
    /\ boat = InitBoat
    /\ \E s \in WindSpeeds : wind = [speed |-> s, direction |-> 0]
    /\ baseWindDirection = wind.direction
    /\ prevDeviation = 0
    /\ ticks = 0
    /\ call = NoCall
    /\ last = [op |-> "InitBoat", dt |-> 0, boat |-> InitBoat, wind |-> wind,
               sailForce |-> Vector2D(0, 0), heelAngle |-> 0,
               prevHeel |-> 0, prevHeading |-> InitBoat.heading,
               prevSailForce |-> Vector2D(0, 0)]

Init ==
    /\ InitScenery
    /\ InitSimulation

DoHandleInput ==
    /\ \E dt \in InputDtSet, keys \in KeySet :
          boat' = HandleInput(boat, dt, keys)
    /\ UNCHANGED <<scenery, wind, baseWindDirection, prevDeviation, ticks, call, last>>

DoUpdateBoat ==
    /\ ticks < MaxTicks
    /\ \E dt \in DtSet :
          \E r \in {UpdateBoat(boat, wind, dt, prevDeviation)} :
             /\ boat' = r.boat
             /\ prevDeviation' = r.prevDeviation
             /\ last' = [op |-> "UpdateBoat", dt |-> dt, boat |-> boat, wind |-> wind,
                         sailForce |-> r.sailForce, heelAngle |-> r.heelAngle,
                         prevHeel |-> boat.heel,
                         prevHeading |-> last.boat.heading,
                         prevSailForce |-> last.sailForce]
    /\ ticks' = ticks + 1
    /\ UNCHANGED <<scenery, wind, baseWindDirection, call>>

\* the driver swings the wind direction between two ticks
OscillateWind ==
    /\ \E windOffset \in WindOffsets :
          wind' = [wind EXCEPT !.direction = baseWindDirection + windOffset]
    /\ UNCHANGED <<scenery, boat, baseWindDirection, prevDeviation, ticks, call, last>>

Next == DoHandleInput \/ DoUpdateBoat \/ OscillateWind

Spec == Init /\ [][Next]_vars

\* ------------------------------------------------------------------------
\* The game loop: each frame polls the keys and then updates the boat, with
\* the same frame time
\* ------------------------------------------------------------------------

\* the number of frames of a run
MaxFrames == 11

\* frame times of the loop
FrameDtSet == {10, 25}

\* the helmsman holds the boat in a turn, to port or to starboard
FrameKeys ==
    {k \in KeySet : k.left # k.right /\ ~k.in /\ ~k.out}

Frame ==
    /\ ticks < MaxFrames
    /\ \E dt \in FrameDtSet, keys \in FrameKeys :
          \* the key held in the first frame stays held
          /\ ticks > 0 => (keys.left <=> boat.rudder < 0)
          /\ \E steered \in {HandleInput(boat, dt, keys)} :
               \E r \in {UpdateBoat(steered, wind, dt, prevDeviation)} :
                  /\ boat' = r.boat
                  /\ prevDeviation' = r.prevDeviation
                  /\ last' = [op |-> "UpdateBoat", dt |-> dt, boat |-> steered,
                              wind |-> wind,
                              sailForce |-> r.sailForce,
                              heelAngle |-> r.heelAngle,
                              prevHeel |-> boat.heel,
                              prevHeading |-> last.boat.heading,
                              prevSailForce |-> last.sailForce]
    /\ ticks' = ticks + 1
    /\ UNCHANGED <<scenery, wind, baseWindDirection, call>>

SpecLoop == Init /\ [][Frame]_vars

\* ------------------------------------------------------------------------
\* The physics functions called directly, on arguments of their whole domain
\* ------------------------------------------------------------------------

\* angles from -10.00 to 10.00 radians
AngleInputs == -1000 .. 1000

\* components of an apparent wind vector
WindComponents == {-1500, -700, -100, -5, 0, 5, 100, 700, 1500}

HeadingInputs == {-M_PI, -236, -157, -79, 0, 79, 157, 236, M_PI}

SheetInputs == {0, 25, 50, 75, 100}

CallNormalizeAngle ==
    /\ call = NoCall
    /\ \E a \in AngleInputs :
          call' = [NoCall EXCEPT !.fn = "NormalizeAngle", !.angle = a,
                                 !.ret = NormalizeAngle(a)]
    /\ UNCHANGED <<scenery, boat, wind, baseWindDirection, prevDeviation, ticks, last>>

CallGetSailAngle ==
    /\ call = NoCall
    /\ \E wx \in WindComponents, wy \in WindComponents,
          h \in HeadingInputs, sh \in SheetInputs :
          call' = [NoCall EXCEPT !.fn = "GetSailAngle",
                                 !.apparentWind = Vector2D(wx, wy),
                                 !.boatHeading = h, !.sheet = sh,
                                 !.ret = GetSailAngle(Vector2D(wx, wy), h, sh)]
    /\ UNCHANGED <<scenery, boat, wind, baseWindDirection, prevDeviation, ticks, last>>

CallCalculateSailForce ==
    /\ call = NoCall
    /\ \E wx \in WindComponents, wy \in WindComponents,
          h \in HeadingInputs, sh \in SheetInputs :
          call' = [NoCall EXCEPT !.fn = "CalculateSailForce",
                                 !.apparentWind = Vector2D(wx, wy),
                                 !.boatHeading = h, !.sheet = sh,
                                 !.force = CalculateSailForce(Vector2D(wx, wy), h, sh)]
    /\ UNCHANGED <<scenery, boat, wind, baseWindDirection, prevDeviation, ticks, last>>

CallNormalized ==
    /\ call = NoCall
    /\ \E x \in WindComponents, y \in WindComponents :
          call' = [NoCall EXCEPT !.fn = "normalized",
                                 !.vector = Vector2D(x, y),
                                 !.force = normalized(Vector2D(x, y))]
    /\ UNCHANGED <<scenery, boat, wind, baseWindDirection, prevDeviation, ticks, last>>

NextCall ==
    \/ CallNormalizeAngle
    \/ CallGetSailAngle
    \/ CallCalculateSailForce
    \/ CallNormalized

SpecCall == Init /\ [][NextCall]_vars

\* ------------------------------------------------------------------------
\* Properties
\* ------------------------------------------------------------------------

\* an UpdateBoat tick has run
Ticked == last.op = "UpdateBoat"

\* the rounding error a cross-track component may carry, in grid units
KeelTol == 1

\* the component of (vx, vy) across the heading axis (sin heading, cos heading)
CrossTrack(vx, vy, heading) == Mul(vx, cosf(heading)) - Mul(vy, sinf(heading))

\* C1: after every UpdateBoat tick the velocity is parallel to the unit
\* vector of the heading as it stands after that tick: its cross-track
\* component is zero (to rounding).
C1_VelocityAlongNewHeading ==
    Ticked => Abs(CrossTrack(boat.vx, boat.vy, boat.heading)) <= KeelTol

\* C2: the position displacement of a tick is parallel to the heading held
\* at the start of the tick: no lateral drift enters the position (to
\* rounding).
C2_DisplacementAlongHeading ==
    Ticked =>
        Abs(CrossTrack(boat.x - last.boat.x, boat.y - last.boat.y,
                       last.boat.heading)) <= KeelTol

\* a tick has moved a boat that entered it with a velocity across its heading
C2_Witness ==
    /\ Ticked
    /\ Abs(CrossTrack(last.boat.vx, last.boat.vy, last.boat.heading)) > 10 * KeelTol
    /\ Abs(boat.x - last.boat.x) + Abs(boat.y - last.boat.y) > SCALE \div 2

\* C6: the sheet stays within [0, 1].
C6_SheetInRange == boat.sheet >= 0 /\ boat.sheet <= SCALE

\* the sheet has been hauled in to its stop after a tick
C6_Witness == Ticked /\ boat.sheet = 0

\* C7: the heel angle stored on the boat after a tick has magnitude at most
\* pi/4.
C7_HeelCapped == Ticked => 4 * Abs(boat.heel) <= M_PI

\* a tick whose heeling moment asked for more than pi/4
C7_Witness ==
    /\ Ticked
    /\ 4 * Abs(last.heelAngle) > M_PI + 4
    /\ Abs(boat.heel) = M_PI \div 4

\* the component of a force to starboard of the centerline of a boat on the
\* given heading
Sideways(force, heading) == Mul(force.x, cosf(heading)) - Mul(force.y, sinf(heading))

\* a sideways force (10 N) and a heel angle (0.02 rad) that rounding cannot
\* have given the wrong sign
SideTol == 1000

HeelTol == 2

\* the sign of a value beyond the tolerance, 0 within it
SignBeyond(a, tol) == IF a > tol THEN 1 ELSE IF a < -tol THEN -1 ELSE 0

\* C8: the sign of the heel angle set in a tick follows the sign of the
\* sideways component of the sail force of that tick: of two ticks (here
\* two consecutive ones, each with a sideways force and a heel beyond
\* rounding), those with the same sideways sign heel to the same side and
\* those with opposite sideways signs heel to opposite sides.
C8_HeelFollowsSideways ==
    LET side1 == SignBeyond(Sideways(last.prevSailForce, last.prevHeading), SideTol)
        side2 == SignBeyond(Sideways(last.sailForce, last.boat.heading), SideTol)
        heel1 == SignBeyond(last.prevHeel, HeelTol)
        heel2 == SignBeyond(boat.heel, HeelTol)
    IN (Ticked /\ side1 # 0 /\ side2 # 0 /\ heel1 # 0 /\ heel2 # 0) =>
          (side1 = side2 <=> heel1 = heel2)

NormalizeAngleCalled == call.fn = "NormalizeAngle"

C5_Idempotent ==
    NormalizeAngleCalled => NormalizeAngle(call.ret) = call.ret

\* an angle more than one turn above the range has been normalized
C5_Witness ==
    NormalizeAngleCalled /\ call.angle > 3 * M_PI /\ call.ret # call.angle

\* how far an angle is from dead astern (pi, equivalently -pi)
AsternDeviation(a) == M_PI - Abs(NormalizeAngle(a))

\* C9: the sail angle returned by GetSailAngle deviates from dead astern by
\* at most sheet*pi/2, and when the natural downwind angle deviates by more
\* the result sits on the limit, on the side of the natural angle.
C9_SailWithinSheet ==
    call.fn = "GetSailAngle" =>
        LET natural == NaturalSailAngle(call.apparentWind, call.boatHeading)
            limit == RDiv(Mul(call.sheet, M_PI), 2)
        IN /\ AsternDeviation(call.ret) <= limit
           /\ AsternDeviation(natural) > limit =>
                 /\ AsternDeviation(call.ret) = limit
                 /\ natural > 0 => call.ret > 0
                 /\ natural < 0 => call.ret < 0

\* a sail held by a partly eased sheet, on the negative side
C9_Witness ==
    /\ call.fn = "GetSailAngle"
    /\ call.sheet = 50
    /\ NaturalSailAngle(call.apparentWind, call.boatHeading) < 0
    /\ AsternDeviation(NaturalSailAngle(call.apparentWind, call.boatHeading)) > 79
    /\ call.ret = -M_PI + 79

\* C10: CalculateSailForce returns the zero vector whenever the apparent
\* wind speed is below 0.1 m/s, for every heading and sheet.
C10_NoForceInCalm ==
    (call.fn = "CalculateSailForce" /\ magnitude(call.apparentWind) < SCALE \div 10)
        => call.force = Vector2D(0, 0)

\* a faint but nonzero apparent wind has produced no force
C10_Witness ==
    /\ call.fn = "CalculateSailForce"
    /\ call.apparentWind = Vector2D(5, 5)
    /\ call.force = Vector2D(0, 0)

\* ------------------------------------------------------------------------
\* The turn of a tick
\* ------------------------------------------------------------------------

\* the speed of the boat as a tick leaves it
SpeedNow == magnitude(Vector2D(boat.vx, boat.vy))

\* C12: with the rudder centred and the boat moving, a tick leaves the
\* heading as it was.
C12_NoTurnRudderCentred ==
    (Ticked /\ last.boat.rudder = 0 /\ SpeedNow > 0)
        => boat.heading = last.boat.heading

\* a tick with the rudder centred has moved a boat that an earlier tick had
\* turned
C12_Witness ==
    /\ Ticked
    /\ last.boat.rudder = 0
    /\ SpeedNow > SCALE
    /\ last.boat.heading # InitBoat.heading

\* the rounding error of a turn, in grid units
TurnTol == 1

\* rudder * RUDDER_EFFECTIVENESS * speed * dt at full right rudder
FullTurn == RDiv(RUDDER_EFFECTIVENESS * SpeedNow * last.dt, SCALE * SCALE)

C15_TickLeavesControls ==
    [][ticks' # ticks =>
          /\ wind' = wind
          /\ boat'.sheet = boat.sheet
          /\ boat'.rudder = boat.rudder
          /\ boat'.length = boat.length]_vars

\* a tick has moved and turned a boat whose sheet and rudder the keys had
\* set, in a wind that had swung
C15_Witness ==
    /\ Ticked
    /\ last.boat.sheet # InitBoat.sheet
    /\ last.boat.rudder # 0
    /\ last.wind.direction # 0
    /\ boat.x # last.boat.x
    /\ boat.heading # last.boat.heading
    /\ boat.sheet = last.boat.sheet
    /\ boat.rudder = last.boat.rudder

\* ------------------------------------------------------------------------
\* CalculateHeelAngle called again and again: its static lives across calls
\* ------------------------------------------------------------------------

HeelWindComponents == {-1500, 0, 700}

HeelHeadings == {-157, 0, 79}

\* sail angles: dead astern, and off to either side
HeelSailAngles == {M_PI, -M_PI, 236, -236, 300}

CallCalculateHeelAngle ==
    /\ \E wx \in HeelWindComponents, wy \in HeelWindComponents,
          h \in HeelHeadings, sa \in HeelSailAngles :
          \E r \in {CalculateHeelAngle(Vector2D(wx, wy), h, sa, prevDeviation)} :
             /\ call' = [NoCall EXCEPT !.fn = "CalculateHeelAngle",
                                       !.apparentWind = Vector2D(wx, wy),
                                       !.boatHeading = h, !.angle = sa,
                                       !.before = prevDeviation,
                                       !.ret = r.heel]
             /\ prevDeviation' = r.prevDeviation
    /\ UNCHANGED <<scenery, boat, wind, baseWindDirection, ticks, last>>

SpecHeel == Init /\ [][CallCalculateHeelAngle]_vars

\* C16: the heel CalculateHeelAngle returns depends on its arguments only:
\* whatever calls were made before, it is the heel that the first call of
\* the program (static prevDeviation still 0) returns for these arguments.
C16_HeelHasNoMemory ==
    call.fn = "CalculateHeelAngle" =>
        call.ret = CalculateHeelAngle(call.apparentWind, call.boatHeading,
                                      call.angle, 0).heel

\* a call with the sail dead astern, where signSource falls back on the
\* static, has found the static set by an earlier call and returned a heel
C16_Witness ==
    /\ call.fn = "CalculateHeelAngle"
    /\ call.angle = M_PI
    /\ call.before < 0
    /\ call.ret > 0

\* ------------------------------------------------------------------------
\* The sail of the force and the sail of the boat
\* ------------------------------------------------------------------------

\* the sail angle from which the last tick computed its sail force
ForceSailAngle ==
    GetSailAngle(GetApparentWind(last.wind, last.boat.vx, last.boat.vy),
                 last.boat.heading, last.boat.sheet)

\* the difference of two sail angles that rounding accounts for
SailTol == 2

\* C17: in every tick the sail angle from which the sail force is computed
\* equals the sail angle stored on the boat, which the same tick uses for
\* the heel.
C17_ForceFromStoredSail ==
    (Ticked /\ last.sailForce # Vector2D(0, 0)) =>
        Abs(NormalizeAngle(ForceSailAngle - boat.sailAngle)) <= SailTol

\* ------------------------------------------------------------------------
\* Vector2D::normalized
\* ------------------------------------------------------------------------

\* u x v, the component of v across u times the length of u
Cross(u, v) == u.x * v.y - u.y * v.x

\* u . v
Dot(u, v) == u.x * v.x + u.y * v.y

\* C18: normalized() of the vector of no length is the zero vector, and of
\* any other vector a vector parallel to it (as nearly as the rounding of
\* its two components allows) that points the same way.
C18_NormalizedDefined ==
    call.fn = "normalized" =>
        IF call.vector = Vector2D(0, 0)
        THEN call.force = Vector2D(0, 0)
        ELSE /\ 2 * Abs(Cross(call.vector, call.force))
                    <= Abs(call.vector.x) + Abs(call.vector.y)
             /\ Dot(call.vector, call.force) > 0

\* normalized() has been called on the vector of no length
C18_Witness ==
    /\ call.fn = "normalized"
    /\ call.vector = Vector2D(0, 0)
    /\ call.force = Vector2D(0, 0)

\* ------------------------------------------------------------------------
\* The direction of the sail force
\* ------------------------------------------------------------------------

\* the component of a force along the direction of the angle a
Along(force, a) == Mul(force.x, sinf(a)) + Mul(force.y, cosf(a))

\* the share of a force, one part in DirectionTol, that the rounding of the
\* sine and cosine to two decimals can move from one axis to another
DirectionTol == 25

\* the size of a force: the sum of its two components, between its length
\* and 1.42 times its length
ForceSize(force) == Abs(force.x) + Abs(force.y)

\* the direction heading + sail angle of the sail of a direct call
CallSailOrientation ==
    call.boatHeading + GetSailAngle(call.apparentWind, call.boatHeading, call.sheet)

\* C19: for an apparent wind of at least 0.1 m/s the force CalculateSailForce
\* returns is perpendicular to the sail plane (no component along heading +
\* sail angle) and acts on the side the wind strikes (no component against
\* the apparent wind), to the rounding of the direction.
C19_ForceAcrossSailDownwind ==
    (call.fn = "CalculateSailForce"
       /\ magnitude(call.apparentWind) >= MIN_WIND_SPEED) =>
        LET slack == ForceSize(call.force) + DirectionTol
            downwind == normalized(call.apparentWind)
        IN /\ DirectionTol * Abs(Along(call.force, CallSailOrientation)) <= slack
           /\ DirectionTol * (Mul(call.force.x, downwind.x)
                               + Mul(call.force.y, downwind.y)) >= -slack

\* CalculateSailForce has returned a force of more than 100 N, more than
\* half of it along the apparent wind
C19_Witness ==
    /\ call.fn = "CalculateSailForce"
    /\ ForceSize(call.force) > 100 * SCALE
    /\ LET downwind == normalized(call.apparentWind)
       IN 2 * (Mul(call.force.x, downwind.x) + Mul(call.force.y, downwind.y))
              > ForceSize(call.force)

\* ------------------------------------------------------------------------
\* The damped sail against the sheet
\* ------------------------------------------------------------------------

\* the deviation of the stored sail angle from dead astern
StoredDeviation == NormalizeAngle(boat.sailAngle - M_PI)

\* C20: after every tick the stored sail angle deviates from dead astern by
\* at most sheet * pi/2, for the sheet in force during that tick, whatever
\* the keys did to the sheet between ticks and whatever the angular
\* velocity of the sail was.
C20_StoredSailWithinSheet ==
    Ticked => Abs(StoredDeviation) <= MaxSheetAngle(last.boat.sheet)

\* a tick has stopped, at the sheet's limit, a swinging sail that the keys
\* had sheeted in since the tick before
C20_Witness ==
    /\ Ticked
    /\ last.boat.sheet < InitBoat.sheet
    /\ last.boat.sailAngularVel # 0
    /\ boat.sailAngularVel = 0
    /\ Abs(StoredDeviation) = MaxSheetAngle(last.boat.sheet)

\* the sail as the last tick integrated it, before the sheet constraint
IntegratedSail ==
    IntegrateSail(last.boat,
                  GetApparentWind(last.wind, last.boat.vx, last.boat.vy),
                  last.dt)

\* the deviation of the integrated sail from dead astern
IntegratedDeviation == NormalizeAngle(IntegratedSail.sailAngle - M_PI)

\* the integrated sail of the last tick went beyond the sheet limit
Overshot == Abs(IntegratedDeviation) > MaxSheetAngle(last.boat.sheet)

\* C21: in a tick where the integrated sail angle exceeds the sheet limit
\* the sail is put at the limit on the side it overshot and its angular
\* velocity is reset to zero; in a tick where it does not, the clamp step
\* alters neither the integrated angle nor the angular velocity.
C21_ClampAtLimit ==
    Ticked =>
        IF Overshot
        THEN /\ StoredDeviation
                  = Sign(IntegratedDeviation) * MaxSheetAngle(last.boat.sheet)
             /\ boat.sailAngularVel = 0
        ELSE /\ boat.sailAngle = IntegratedSail.sailAngle
             /\ boat.sailAngularVel = IntegratedSail.sailAngularVel

\* a tick has stopped a swinging sail that went beyond the sheet limit
C21_Witness ==
    /\ Ticked
    /\ Overshot
    /\ IntegratedSail.sailAngularVel # 0
    /\ boat.sailAngularVel = 0

\* C22: the sail angle stored on the boat lies in (-pi, pi] after every
\* tick, the ticks in which the sheet clamp sets it included.
C22_StoredSailNormalized ==
    Ticked => boat.sailAngle > -M_PI /\ boat.sailAngle <= M_PI

\* ------------------------------------------------------------------------
\* The sail the sheet does not hold
\* ------------------------------------------------------------------------

\* the sheet stops the sail short of its natural downwind angle
SheetClamps(apparentWind, boatHeading, sheet) ==
    AsternDeviation(NaturalSailAngle(apparentWind, boatHeading)) > MaxSheetAngle(sheet)

\* C27: when the natural downwind sail angle is within sheet*pi/2 of dead
\* astern the sail lies along the apparent wind and CalculateSailForce
\* returns the zero force; a force that is not zero comes from a sail held
\* on the sheet limit.
C27_FreeSailNoForce ==
    call.fn = "CalculateSailForce" =>
        /\ ~SheetClamps(call.apparentWind, call.boatHeading, call.sheet)
              => call.force = Vector2D(0, 0)
        /\ call.force # Vector2D(0, 0)
              => /\ SheetClamps(call.apparentWind, call.boatHeading, call.sheet)
                 /\ AsternDeviation(GetSailAngle(call.apparentWind, call.boatHeading,
                                                 call.sheet))
                       = MaxSheetAngle(call.sheet)

\* CalculateSailForce has returned no force for a wind that blows, on a
\* sail that is out of the centreline and short of the sheet limit
C27_Witness ==
    /\ call.fn = "CalculateSailForce"
    /\ magnitude(call.apparentWind) >= MIN_WIND_SPEED
    /\ ~SheetClamps(call.apparentWind, call.boatHeading, call.sheet)
    /\ AsternDeviation(NaturalSailAngle(call.apparentWind, call.boatHeading)) > 0
    /\ AsternDeviation(NaturalSailAngle(call.apparentWind, call.boatHeading))
          < MaxSheetAngle(call.sheet)
    /\ call.force = Vector2D(0, 0)

\* ------------------------------------------------------------------------
\* What a tick reads: the velocity and the heading it started with
\* ------------------------------------------------------------------------

\* the apparent wind of the last tick, from the velocity the tick started
\* with
StartApparentWind == GetApparentWind(last.wind, last.boat.vx, last.boat.vy)

\* the velocity the last tick stores when the drag is that of the velocity
\* the tick started with
VelocityFromStart ==
    KeelConstraint(
        IntegrateVelocity(last.boat.vx, last.boat.vy,
                          VecAdd(EffectiveForce(last.sailForce, last.boat.heading),
                                 CalculateDrag(last.boat.vx, last.boat.vy)),
                          last.dt),
        last.boat.heading)

\* C25: the sail force, the heel and the drag of a tick are those of the
\* velocity and the heading the boat had when the tick started, not of the
\* velocity or the heading the tick writes.
C25_TickReadsStartState ==
    Ticked =>
        /\ last.sailForce
              = CalculateSailForce(StartApparentWind, last.boat.heading,
                                   last.boat.sheet)
        /\ boat.heel
              = CalculateHeelAngle(StartApparentWind, last.boat.heading,
                                   boat.sailAngle, prevDeviation).heel
        /\ Vector2D(boat.vx, boat.vy) = VelocityFromStart

\* a tick has changed the velocity and the heading of a moving boat under
\* sail, and the sail force and the drag of the state it has written are
\* not those it has applied
C25_Witness ==
    /\ Ticked
    /\ ForceSize(last.sailForce) > 0
    /\ boat.heel # 0
    /\ boat.heading # last.boat.heading
    /\ CalculateDrag(last.boat.vx, last.boat.vy) # Vector2D(0, 0)
    /\ CalculateDrag(boat.vx, boat.vy) # CalculateDrag(last.boat.vx, last.boat.vy)
    /\ CalculateSailForce(GetApparentWind(last.wind, boat.vx, boat.vy),
                          boat.heading, last.boat.sheet) # last.sailForce

\* ------------------------------------------------------------------------
\* The keys of a frame: HandleInput called on the boat as the ticks left it
\* ------------------------------------------------------------------------

\* the loop polls the keys before each tick it makes
CallHandleInput ==
    /\ ticks < MaxTicks
    /\ \E dt \in InputDtSet, keys \in KeySet :
          /\ boat' = HandleInput(boat, dt, keys)
          /\ call' = [NoCall EXCEPT !.fn = "HandleInput", !.keys = keys,
                                    !.before = boat.rudder]
    /\ UNCHANGED <<scenery, wind, baseWindDirection, prevDeviation, ticks, last>>

NextInput == CallHandleInput \/ DoUpdateBoat

SpecInput == Init /\ [][NextInput]_vars

\* C24: a HandleInput call changes only the sheet and the rudder of the
\* boat, and the rudder it leaves is -1 with a left key held, else +1 with a
\* right key held, else 0, whatever the rudder was before.
C24_InputFrame ==
    [][(call' # call) =>
          /\ call'.before = boat.rudder
          /\ boat' = [boat EXCEPT !.sheet = boat'.sheet, !.rudder = boat'.rudder]
          /\ boat'.rudder = IF call'.keys.left THEN -SCALE
                            ELSE IF call'.keys.right THEN SCALE
                            ELSE 0]_vars

\* HandleInput has been called, with both steering keys held, on a moving
\* boat whose rudder was at +1, and has left the rudder at -1 and the boat
\* where the last tick has put it and as fast
C24_Witness ==
    /\ call.fn = "HandleInput"
    /\ call.keys.left /\ call.keys.right
    /\ call.before = SCALE
    /\ boat.rudder = -SCALE
    /\ Ticked
    /\ last.boat.rudder = SCALE
    /\ boat.vx # 0
    /\ boat.x = last.boat.x + Mul(boat.vx, last.dt)
    /\ boat.y = last.boat.y + Mul(boat.vy, last.dt)

\* ------------------------------------------------------------------------
\* The wind particles: UpdateWindParticles called frame after frame
\* ------------------------------------------------------------------------

\* the number of UpdateWindParticles calls of a run
MaxWindCalls == 4

\* what GetTime returns in a call
Times == {0, SCALE \div 2}

\* the lifetimes main draws for the particles, dead and alive
InitialLifetimes == {0, 2 * SCALE}

\* what GetRandomValue returns for a respawn: the edge, and the coordinate
\* along it
Draws == [edge : 0..3, value : {40 * SCALE}]

\* the particles as src/archive/main.cpp sets them up, each on the boat
InitWind ==
    /\ InitSimulation
    /\ InitWake
    /\ NoChevrons
    /\ particles \in [ParticleIndices ->
                        {Particle(InitBoat.x, InitBoat.y, l) : l \in InitialLifetimes}]
    /\ frameCount = 0

CallUpdateWindParticles ==
    /\ frameCount < MaxWindCalls * MAX_PARTICLES
    /\ \E dt \in DtSet, time \in Times :
          \E draws \in [{i \in ParticleIndices : particles[i].lifetime <= 0} -> Draws] :
             \E r \in {UpdateWindParticles(particles, frameCount, boat, wind, dt,
                                           time, draws)} :
                /\ particles' = r.particles
                /\ frameCount' = r.frameCount
    /\ UNCHANGED <<wake, wakeCount, timeSinceLastPoint, chevrons>>
    /\ UNCHANGED <<boat, wind, baseWindDirection, prevDeviation, ticks, call, last>>

SpecWind == InitWind /\ [][CallUpdateWindParticles]_vars

\* C26: of any three consecutive calls of UpdateWindParticles exactly one
\* shifts the trail of a particle, whatever its index, and the call that
\* shifts it leaves the position of the particle at trail index 0 and every
\* older point one index back; a call that does not shift leaves the trail
\* as it found it.
C26_TrailEveryThirdCall ==
    \A i \in ParticleIndices :
        LET p == particles[i]
        IN /\ Len(p.shifts) = 3 => Cardinality({k \in 1..3 : p.shifts[k]}) = 1
           /\ Len(p.shifts) > 0 =>
                 IF p.shifts[1]
                 THEN /\ p.trailX[1] = p.x /\ p.trailY[1] = p.y
                      /\ \A j \in 2..TRAIL_LENGTH :
                            /\ p.trailX[j] = p.heldX[j - 1]
                            /\ p.trailY[j] = p.heldY[j - 1]
                 ELSE p.trailX = p.heldX /\ p.trailY = p.heldY

\* three calls in a row have been made on a particle that the wind moves,
\* the latest has shifted its trail and the two before have not
C26_Witness ==
    \E i \in ParticleIndices :
        LET p == particles[i]
        IN /\ Len(p.shifts) = 3
           /\ p.shifts = <<TRUE, FALSE, FALSE>>
           /\ p.trailX[1] = p.x /\ p.trailY[1] = p.y
           /\ p.trailY[2] # p.trailY[1]
           /\ p.trailY[3] # p.trailY[2]
           /\ frameCount > 3 * MAX_PARTICLES

\* ------------------------------------------------------------------------
\* The boat coasting: a tick whose sail gives no force
\* ------------------------------------------------------------------------

CoastHeadings == {0, RDiv(M_PI, 4), -236}

\* the speed along the heading the boat starts with, backwards and forwards
CoastSpeeds == {-2000, -800, -300, -50, 50, 300, 800, 2000}

\* frame times: 1/60 s, a slow frame, and the frame after a stall
CoastDtSet == {RDiv(SCALE, 60), 25, SCALE}

\* the boat under way along its heading, in still air or in a wind that
\* travels with it
InitCoast ==
    /\ InitScenery
    /\ \E h \in CoastHeadings, s \in CoastSpeeds, still \in BOOLEAN :
          /\ boat = [InitBoat EXCEPT !.heading = h,
                                     !.vx = Mul(s, sinf(h)),
                                     !.vy = Mul(s, cosf(h))]
          /\ wind = IF still THEN [speed |-> 0, direction |-> h]
                    ELSE [speed |-> Abs(s),
                          direction |-> IF s > 0 THEN NormalizeAngle(h + M_PI) ELSE h]
    /\ baseWindDirection = wind.direction
    /\ prevDeviation = 0
    /\ ticks = 0
    /\ call = NoCall
    /\ last = [op |-> "InitBoat", dt |-> 0, boat |-> boat, wind |-> wind,
               sailForce |-> Vector2D(0, 0), heelAngle |-> 0,
               prevHeel |-> 0, prevHeading |-> boat.heading,
               prevSailForce |-> Vector2D(0, 0)]

\* the one tick of a run
CoastTick ==
    /\ ticks = 0
    /\ \E dt \in CoastDtSet :
          \E r \in {UpdateBoat(boat, wind, dt, prevDeviation)} :
             /\ boat' = r.boat
             /\ prevDeviation' = r.prevDeviation
             /\ last' = [op |-> "UpdateBoat", dt |-> dt, boat |-> boat, wind |-> wind,
                         sailForce |-> r.sailForce, heelAngle |-> r.heelAngle,
                         prevHeel |-> boat.heel,
                         prevHeading |-> last.boat.heading,
                         prevSailForce |-> last.sailForce]
    /\ ticks' = ticks + 1
    /\ UNCHANGED <<scenery, wind, baseWindDirection, call>>

SpecCoast == InitCoast /\ [][CoastTick]_vars

\* the speed along the heading before and after the last tick
SpeedBefore == Along(Vector2D(last.boat.vx, last.boat.vy), last.boat.heading)

SpeedAfter == Along(Vector2D(boat.vx, boat.vy), last.boat.heading)

\* the last tick was one of no sail force
Coasted == Ticked /\ last.sailForce = Vector2D(0, 0)

\* the drag of the speed before, acting for dt, takes no more than that
\* speed away: 0.5 * WATER_DENSITY * DRAG_COEFFICIENT * HULL_AREA * speed * dt
\* is at most BOAT_MASS
WithinDragStep == Mul(Mul(DragFactor, Abs(SpeedBefore)), last.dt) <= BOAT_MASS

\* the drag has neither reversed the boat nor sped it up
DragOnlySlows ==
    /\ Sign(SpeedAfter) = Sign(SpeedBefore) \/ SpeedAfter = 0
    /\ Abs(SpeedAfter) <= Abs(SpeedBefore)

\* C28 as stated: in a tick of no sail force the speed along the heading
\* keeps its sign or becomes zero, and does not grow, whatever dt and the
\* speed.
C28_DragNeverReverses == Coasted => DragOnlySlows

\* C28: in a tick of no sail force whose drag step is at most the momentum
\* of the boat (drag factor * speed * dt <= BOAT_MASS), the speed along the
\* heading keeps its sign or becomes zero, and does not grow.
C28_DragSlowsWithinStep == (Coasted /\ WithinDragStep) => DragOnlySlows

\* a tick of no sail force has slowed a boat under way, without stopping it
C28_Witness ==
    /\ Coasted
    /\ WithinDragStep
    /\ Abs(SpeedBefore) > SCALE
    /\ Sign(SpeedAfter) = Sign(SpeedBefore)
    /\ Abs(SpeedAfter) < Abs(SpeedBefore)

\* ------------------------------------------------------------------------
\* The scenario: ten seconds close to a wind of 15 m/s from direction 0
\* ------------------------------------------------------------------------

\* the ticks of ten seconds
ScenarioTicks == 500

\* the frame time 1/60 s, on the grid
ScenarioDt == RDiv(SCALE, 60)

InitScenario ==
    /\ InitScenery
    /\ boat = InitBoat
    /\ wind = [speed |-> 15 * SCALE, direction |-> 0]
    /\ baseWindDirection = wind.direction
    /\ prevDeviation = 0
    /\ ticks = 0
    /\ call = NoCall
    /\ last = [op |-> "InitBoat", dt |-> 0, boat |-> InitBoat, wind |-> wind,
               sailForce |-> Vector2D(0, 0), heelAngle |-> 0,
               prevHeel |-> 0, prevHeading |-> InitBoat.heading,
               prevSailForce |-> Vector2D(0, 0)]

ScenarioTick ==
    /\ ticks < ScenarioTicks
    /\ \E r \in {UpdateBoat(boat, wind, ScenarioDt, prevDeviation)} :
          /\ boat' = r.boat
          /\ prevDeviation' = r.prevDeviation
          /\ last' = [op |-> "UpdateBoat", dt |-> ScenarioDt, boat |-> boat,
                      wind |-> wind,
                      sailForce |-> r.sailForce, heelAngle |-> r.heelAngle,
                      prevHeel |-> boat.heel,
                      prevHeading |-> last.boat.heading,
                      prevSailForce |-> last.sailForce]
    /\ ticks' = ticks + 1
    /\ UNCHANGED <<scenery, wind, baseWindDirection, call>>

SpecScenario == InitScenario /\ [][ScenarioTick]_vars

\* the change of speed per tick that counts as none (0.01 m/s)
SteadyTol == 1

\* the speed of the scenario: above zero from the first tick on, never above
\* the wind's, and steady over the last second
ScenarioSpeedSettles ==
    /\ Ticked => SpeedNow > 0 /\ SpeedNow < wind.speed
    /\ ticks >= ScenarioTicks - 50 =>
          Abs(SpeedNow - magnitude(Vector2D(last.boat.vx, last.boat.vy)))
              <= SteadyTol

\* C14: in the scenario (wind 15 from direction 0, heading pi/4, sheet 0.5,
\* rudder 0, from rest at the origin, ticks of 1/60 s for ten seconds) the
\* speed becomes greater than zero, stays finite and settles to a steady
\* value, and the boat ends in the quadrant its heading pi/4 points into
\* (x > 0 and y > 0).
C14_ScenarioConverges ==
    /\ ScenarioSpeedSettles
    /\ ticks = ScenarioTicks => boat.x > 0 /\ boat.y > 0

\* C23: the heading change of a tick, before normalization, is
\* rudder * RUDDER_EFFECTIVENESS * speed * dt, where speed is the magnitude
\* of the keel-constrained velocity the tick has just stored; at zero speed
\* the heading is unchanged whatever the rudder.
C23_TurnBySpeedAfterKeel ==
    Ticked =>
        /\ boat.heading
              = NormalizeAngle(
                    last.boat.heading
                    + Mul(Mul(Mul(last.boat.rudder, RUDDER_EFFECTIVENESS), SpeedNow),
                          last.dt))
        /\ SpeedNow = 0 => boat.heading = last.boat.heading

\* a tick has turned a boat whose velocity, left from the heading before
\* its last turn, the keel constraint had to bring onto the heading
C23_Witness ==
    /\ Ticked
    /\ last.boat.rudder # 0
    /\ SpeedNow > SCALE
    /\ boat.heading # last.boat.heading
    /\ Abs(CrossTrack(last.boat.vx, last.boat.vy, last.boat.heading)) > SCALE

\* ------------------------------------------------------------------------
\* The wake: each frame of the scenario updates the boat and then the wake
\* ------------------------------------------------------------------------

\* the number of frames of a run
MaxWakeFrames == 260

\* the frame time of a run: 1/60 s, half the wake interval, the interval,
\* and more than twice the interval
WakeDtSet == {ScenarioDt, WAKE_INTERVAL \div 2, WAKE_INTERVAL, 25}

\* a frame: UpdateBoat, then UpdateWake on the boat it leaves; the frame
\* time is that of the first frame; call keeps the array and the count the
\* call was given, whether it has added a point, and the dt of the calls
\* since the last point was added
WakeFrame ==
    /\ ticks < MaxWakeFrames
    /\ \E dt \in WakeDtSet :
          /\ ticks > 0 => dt = last.dt
          /\ \E r \in {UpdateBoat(boat, wind, dt, prevDeviation)} :
                \E w \in {UpdateWake(wake, wakeCount, timeSinceLastPoint, r.boat, dt)} :
                   /\ boat' = r.boat
                   /\ prevDeviation' = r.prevDeviation
                   /\ last' = [op |-> "UpdateBoat", dt |-> dt, boat |-> boat,
                               wind |-> wind,
                               sailForce |-> r.sailForce, heelAngle |-> r.heelAngle,
                               prevHeel |-> boat.heel,
                               prevHeading |-> last.boat.heading,
                               prevSailForce |-> last.sailForce]
                   /\ wake' = w.wake
                   /\ wakeCount' = w.wakeCount
                   /\ timeSinceLastPoint' = w.timeSinceLastPoint
                   /\ call' = [NoCall EXCEPT
                                  !.fn = "UpdateWake",
                                  !.wake = wake,
                                  !.wakeCount = wakeCount,
                                  !.added = w.added,
                                  !.elapsed = (IF call.added THEN 0 ELSE call.elapsed) + dt]
    /\ ticks' = ticks + 1
    /\ UNCHANGED <<particles, frameCount, chevrons, wind, baseWindDirection>>

SpecWake == InitScenario /\ [][WakeFrame]_vars

ChevronDtSet == {25, CHEVRON_LIFETIME \div 2}

\* where the boat is in a call: at the origin, or 25 m east of it
ChevronBoats == {[InitBoat EXCEPT !.x = x] : x \in {0, 25 * SCALE}}

\* what GetRandomValue returns for a chevron: whether it spawns, and the
\* jitter of its position
ChevronDraws == [spawn : BOOLEAN, jx : {-JITTER, JITTER}, jz : {-JITTER, JITTER}]

\* a call, on the boat where the frame has put it
CallUpdateWaveChevrons ==
    /\ \E dt \in ChevronDtSet, b \in ChevronBoats,
          draws \in [ChevronIndices -> ChevronDraws] :
          /\ chevrons' = UpdateWaveChevrons(chevrons, b, dt, draws)
          /\ boat' = b
    /\ UNCHANGED <<particles, frameCount, wake, wakeCount, timeSinceLastPoint>>
    /\ UNCHANGED <<wind, baseWindDirection, prevDeviation, ticks, call, last>>

InitWaves ==
    /\ InitSimulation
    /\ NoParticles
    /\ InitWake
    /\ InitChevrons

\* the calls go on for as long as the window is open
SpecChevrons ==
    InitWaves /\ [][CallUpdateWaveChevrons]_vars /\ WF_vars(CallUpdateWaveChevrons)

\* the distance of the chevron of index i from its grid target
DistFromGrid(i) ==
    magnitude(Vector2D(chevrons[i].x - GridTarget(i, boat).x,
                       chevrons[i].z - GridTarget(i, boat).z))

\* an active chevron is within its phase and near its grid target
ChevronInPlace(i) ==
    chevrons[i].active =>
        /\ chevrons[i].phase >= 0
        /\ chevrons[i].phase < SCALE
        /\ DistFromGrid(i) <= RDiv(3 * GRID_SPACING, 2)

EveryChevronDeactivated ==
    \A i \in ChevronIndices : chevrons[i].active ~> ~chevrons[i].active

\* C30 as stated: after every call an active chevron has its phase in
\* [0, 1) and is within 1.5 * GRID_SPACING of its grid target, and it has
\* accumulated less dt than its lifetime; every active chevron is
\* eventually deactivated.
C30_DeactivatedByLifetime ==
    /\ [](\A i \in ChevronIndices :
             /\ ChevronInPlace(i)
             /\ chevrons[i].active => chevrons[i].age < chevrons[i].lifetime)
    /\ EveryChevronDeactivated

\* C30: after every call an active chevron has its phase in [0, 1) and is
\* within 1.5 * GRID_SPACING of its grid target, and before the latest call
\* it had accumulated less dt than its lifetime: it is deactivated at the
\* latest in the call after the one where its accumulated dt reaches the
\* lifetime; every active chevron is eventually deactivated.
C30_DeactivatedAfterLifetime ==
    /\ [](\A i \in ChevronIndices :
             /\ ChevronInPlace(i)
             /\ chevrons[i].active
                   => chevrons[i].age - chevrons[i].step < chevrons[i].lifetime)
    /\ EveryChevronDeactivated

\* a chevron is still active in the call where its accumulated dt has
\* reached its lifetime, its phase short of 1
C30_Witness ==
    \E i \in ChevronIndices :
        /\ chevrons[i].active
        /\ chevrons[i].age = chevrons[i].lifetime
        /\ chevrons[i].phase < SCALE
        /\ chevrons[i].phase > SCALE \div 2

\* ------------------------------------------------------------------------
\* The boat at rest, and the drag of a boat that barely moves
\* ------------------------------------------------------------------------

\* grid steps to 1 m/s and to 1 N in a direct call of CalculateDrag
FineUnit == 100 * SCALE

\* velocity components of a direct call, in steps of 0.0001 m/s
FineComponents == {-300, -150, -99, -60, -1, 0, 1, 60, 99, 150, 300}

CallCalculateDrag ==
    /\ call = NoCall
    /\ \E vx \in FineComponents, vy \in FineComponents :
          call' = [NoCall EXCEPT !.fn = "CalculateDrag",
                                 !.vector = Vector2D(vx, vy),
                                 !.force = CalculateDragAt(vx, vy, FineUnit)]
    /\ UNCHANGED <<scenery, boat, wind, baseWindDirection, prevDeviation, ticks, last>>

NextRest == DoUpdateBoat \/ CallCalculateDrag

SpecRest == Init /\ [][NextRest]_vars

\* C11: CalculateDrag returns exactly the zero vector whenever the speed is
\* below 0.01 m/s, zero velocity included, and a boat at rest in still air
\* is, after any number of ticks, still at the origin with no velocity.
C11_NoDragNearRest ==
    /\ (call.fn = "CalculateDrag" /\ magnitude(call.vector) < FineUnit \div 100)
          => call.force = Vector2D(0, 0)
    /\ wind.speed = 0
          => boat.x = 0 /\ boat.y = 0 /\ boat.vx = 0 /\ boat.vy = 0

\* the boat has been ticked at rest in still air, and CalculateDrag has been
\* called with a speed between 0 and 0.01 m/s
C11_Witness ==
    /\ wind.speed = 0
    /\ ticks = MaxTicks
    /\ call.fn = "CalculateDrag"
    /\ magnitude(call.vector) > 0
    /\ magnitude(call.vector) < FineUnit \div 100

\* ------------------------------------------------------------------------
\* The heading through a turn of the game loop
\* ------------------------------------------------------------------------

====
